---- MODULE Spec2Model ----
(***************************************************************************)
(* Model of telepresence-compose.py: the translation of one service of a   *)
(* docker-compose manifest into a telepresence / docker-run command line.  *)
(*                                                                         *)
(* Representation of Python values                                         *)
(*   str   a sequence of lexemes (TLA+ strings).  The characters the code  *)
(*         inspects are lexemes of their own: " " (SP), tab (TAB), "/",    *)
(*         "~", and, in durations, each digit and letter.  "." and ".."    *)
(*         occur as whole path segments.  Concatenation of str is \o.      *)
(*   None  the record NoneV; a str s is boxed as Str(s) wherever a value   *)
(*         may also be None, a list, a dict, a bool or an int.             *)
(***************************************************************************)
EXTENDS Integers, Sequences, FiniteSets, TLC

\* args          the parsed command line: service, context, swap, composefile
\* environ       what the path functions read of the process: HOME and cwd
\* compose_file  the loaded manifest
\* pc            where main stands: start, loaded, extracted, proxy,
\*               assembled, printed or aborted (call, returned for one
\*               normalizer called on its own)
\* locals        main's svc_* values and flag groups; an itertools group
\*               holds what is left to iterate
\* cmd           the argument list under construction
\* stdout        the lexemes printed so far
\* err           the exception or exit that ended the run, NoneV without
\* probe         the function, argument and result of a normalizer call
VARIABLES args, environ, compose_file, pc, locals, cmd, stdout, err, probe

vars == <<args, environ, compose_file, pc, locals, cmd, stdout, err, probe>>

-----------------------------------------------------------------------------
(* Python values *)

SP == " "
TAB == "\t"

NoneV == [t |-> "none"]
Str(s) == [t |-> "str", v |-> s]
List(l) == [t |-> "list", v |-> l]
Dict(items) == [t |-> "dict", v |-> items]
PyInt(n) == [t |-> "int", v |-> n]
PyBool(b) == [t |-> "bool", v |-> b]

\* Python truthiness of None, str, list, dict
Truthy(x) ==
  CASE x.t = "none" -> FALSE
    [] x.t \in {"str", "list", "dict"} -> x.v # <<>>
    [] x.t = "bool" -> x.v
    [] x.t = "int" -> x.v # 0

\* str(x) for the values the program stringifies
PyStr(x) ==
  CASE x.t = "str" -> x.v
    [] x.t = "int" -> <<ToString(x.v)>>
    [] x.t = "bool" -> IF x.v THEN <<"True">> ELSE <<"False">>
    [] x.t = "none" -> <<"None">>

\* sep.join(parts) for a sequence of str
RECURSIVE Join(_, _)
Join(parts, sep) ==
  IF parts = <<>> THEN <<>>
  ELSE IF Len(parts) = 1 THEN parts[1]
  ELSE parts[1] \o <<sep>> \o Join(Tail(parts), sep)

\* s.split(sep): cut at every occurrence of the single lexeme sep; empty
\* pieces are kept, and the empty str gives one empty piece
RECURSIVE SplitAcc(_, _, _)
SplitAcc(s, sep, cur) ==
  IF s = <<>> THEN <<cur>>
  ELSE IF s[1] = sep THEN <<cur>> \o SplitAcc(Tail(s), sep, <<>>)
  ELSE SplitAcc(Tail(s), sep, Append(cur, s[1]))

Split(s, sep) == SplitAcc(s, sep, <<>>)

startswith(s, c) == Len(s) > 0 /\ s[1] = c

-----------------------------------------------------------------------------
(* convert_to_seconds *)

Digits == {"0", "1", "2", "3", "4", "5", "6", "7", "8", "9"}

DigitVal(c) ==
  CASE c = "0" -> 0 [] c = "1" -> 1 [] c = "2" -> 2 [] c = "3" -> 3
    [] c = "4" -> 4 [] c = "5" -> 5 [] c = "6" -> 6 [] c = "7" -> 7
    [] c = "8" -> 8 [] c = "9" -> 9

\* str.lower() on one character
Lower(c) ==
  CASE c = "S" -> "s" [] c = "M" -> "m" [] c = "H" -> "h"
    [] c = "D" -> "d" [] c = "W" -> "w" [] OTHER -> c

\* UNITS.get(u, 'seconds')
UNITS(u) ==
  CASE u = "s" -> "seconds" [] u = "m" -> "minutes" [] u = "h" -> "hours"
    [] u = "d" -> "days" [] u = "w" -> "weeks" [] OTHER -> "seconds"

\* the character class [smhdw] under re.I
IsUnitChar(c) == Lower(c) \in {"s", "m", "h", "d", "w"}

\* \d+ from position i: the position after the last digit of the run
RECURSIVE DigitsEnd(_, _)
DigitsEnd(s, i) ==
  IF i <= Len(s) /\ s[i] \in Digits THEN DigitsEnd(s, i + 1) ELSE i

\* int() of the digit run s[i..j-1]
RECURSIVE IntOf(_, _, _, _)
IntOf(s, i, j, acc) ==
  IF i >= j THEN acc ELSE IntOf(s, i + 1, j, 10 * acc + DigitVal(s[i]))

\* re.finditer(r'(?P<val>\d+)(?P<unit>[smhdw]?)', s, flags=re.I): the
\* non-overlapping matches, left to right, as <<unit, val>> pairs
RECURSIVE finditer(_, _)
finditer(s, i) ==
  IF i > Len(s) THEN <<>>
  ELSE IF s[i] \notin Digits THEN finditer(s, i + 1)
  ELSE LET j == DigitsEnd(s, i)
           hasUnit == j <= Len(s) /\ IsUnitChar(s[j])
           unit == IF hasUnit THEN s[j] ELSE ""
           next == IF hasUnit THEN j + 1 ELSE j
       IN  <<[unit |-> unit, val |-> IntOf(s, i, j, 0)]>> \o finditer(s, next)

\* the dict comprehension: one entry per keyword, a later match with the
\* same keyword replacing the earlier one
RECURSIVE DictOf(_, _)
DictOf(ms, d) ==
  IF ms = <<>> THEN d
  ELSE LET k == UNITS(Lower(ms[1].unit))
       IN  DictOf(Tail(ms), [x \in (DOMAIN d) \cup {k} |->
                               IF x = k THEN ms[1].val ELSE d[x]])

\* timedelta(**kw).total_seconds()
total_seconds(kw) ==
  LET get(k) == IF k \in DOMAIN kw THEN kw[k] ELSE 0
  IN  get("seconds") + 60 * get("minutes") + 3600 * get("hours")
        + 86400 * get("days") + 604800 * get("weeks")

EmptyDict == [x \in {} |-> 0]

convert_to_seconds(s) == total_seconds(DictOf(finditer(s, 1), EmptyDict))

-----------------------------------------------------------------------------
(* os.path and pathlib.PosixPath *)

Raise(e) == [t |-> "raise", v |-> e]

\* the index of the last "/" of p, 0 when there is none (p.rfind('/') + 1)
RECURSIVE rfindSlash(_, _)
rfindSlash(p, i) ==
  IF i = 0 THEN 0 ELSE IF p[i] = "/" THEN i ELSE rfindSlash(p, i - 1)

RECURSIVE rstripSlash(_)
rstripSlash(p) ==
  IF p # <<>> /\ p[Len(p)] = "/" THEN rstripSlash(SubSeq(p, 1, Len(p) - 1))
  ELSE p

\* os.path.dirname
dirname(p) ==
  LET head == SubSeq(p, 1, rfindSlash(p, Len(p)))
  IN  IF head # <<>> /\ (\E k \in 1..Len(head) : head[k] # "/")
      THEN rstripSlash(head) ELSE head

\* the root pathlib and normpath keep: "//" for exactly two leading
\* slashes, "/" for one or for three and more, nothing otherwise
RootOf(s) ==
  IF ~startswith(s, "/") THEN <<>>
  ELSE IF Len(s) >= 2 /\ s[2] = "/" /\ ~(Len(s) >= 3 /\ s[3] = "/")
       THEN <<"/", "/">>
       ELSE <<"/">>

\* the parts pathlib keeps of one argument: empty and "." segments go
Segs(s) == SelectSeq(Split(s, "/"), LAMBDA x : x # <<>> /\ x # <<".">>)

\* PosixPath(a)
PosixPath1(a) == [root |-> RootOf(a), parts |-> Segs(a)]

\* PosixPath(a, b): an absolute b discards a
PosixPath2(a, b) ==
  IF RootOf(b) # <<>> THEN PosixPath1(b)
  ELSE [root |-> RootOf(a), parts |-> Segs(a) \o Segs(b)]

\* str(path)
PathStr(p) ==
  LET s == p.root \o Join(p.parts, "/")
  IN  IF s = <<>> THEN <<".">> ELSE s

\* PosixPath.expanduser(): "~" alone is $HOME; "~user" is looked up in
\* the password database, where the model knows no user
expanduser(p) ==
  IF p.root = <<>> /\ p.parts # <<>> /\ startswith(p.parts[1], "~")
  THEN IF p.parts[1] = <<"~">>
       THEN [root |-> RootOf(environ.HOME),
             parts |-> Segs(environ.HOME) \o Tail(p.parts)]
       ELSE Raise("RuntimeError")
  ELSE p

\* PosixPath.absolute()
absolute(p) ==
  IF p.root # <<>> THEN p
  ELSE [root |-> RootOf(environ.cwd), parts |-> Segs(environ.cwd) \o p.parts]

\* the component loop of os.path.normpath
RECURSIVE NormComps(_, _, _)
NormComps(comps, new, initial) ==
  IF comps = <<>> THEN new
  ELSE LET c == comps[1]
           n == Len(new)
       IN  IF c = <<>> \/ c = <<".">> THEN NormComps(Tail(comps), new, initial)
           ELSE IF c # <<"..">> \/ (~initial /\ n = 0)
                     \/ (n > 0 /\ new[n] = <<"..">>)
                THEN NormComps(Tail(comps), Append(new, c), initial)
           ELSE IF n > 0
                THEN NormComps(Tail(comps), SubSeq(new, 1, n - 1), initial)
           ELSE NormComps(Tail(comps), new, initial)

\* os.path.normpath
normpath(s) ==
  IF s = <<>> THEN <<".">>
  ELSE LET root == RootOf(s)
           body == Join(NormComps(Split(s, "/"), <<>>, root # <<>>), "/")
           path == root \o body
       IN  IF path = <<>> THEN <<".">> ELSE path

\* str(os.path.normpath(path.absolute())) for a path that may have raised
AbsNorm(p) ==
  IF "t" \in DOMAIN p THEN p ELSE Str(normpath(PathStr(absolute(p))))

-----------------------------------------------------------------------------
(* the field normalizers, lines 44-104 *)

\* d[key] for a dict given as its items, a sequence of <<key, value>> pairs
DictGet(d, key) ==
  d.v[CHOOSE i \in 1..Len(d.v) : d.v[i][1] = key][2]

\* port_to_str with any other shape stringified
port_to_str_coerce(port) ==
  IF port.t = "str" THEN port
  ELSE IF port.t = "dict"
  THEN Str(PyStr(DictGet(port, "published")) \o <<":">>
             \o PyStr(DictGet(port, "target")) \o <<"/">>
             \o DictGet(port, "protocol").v)
  ELSE Str(PyStr(port))

\* port_to_str: the fall-through "return null" raises NameError
port_to_str(port) ==
  IF port.t = "str" THEN port
  ELSE IF port.t = "dict"
  THEN Str(PyStr(DictGet(port, "published")) \o <<":">>
             \o PyStr(DictGet(port, "target")) \o <<"/">>
             \o DictGet(port, "protocol").v)
  ELSE Raise("NameError")

\* the host path of a source or env_file value: PyVal str or raise
ResolveHostPath(a, val) ==
  IF startswith(val, "~") THEN AbsNorm(expanduser(PosixPath1(val)))
  ELSE IF ~startswith(val, "/")
  THEN AbsNorm(PosixPath2(dirname(a.composefile), val))
  ELSE Str(val)

\* volume_dict_pairs_to_str looking for the key readOnly
volume_dict_pairs_to_str_camel(a, keyval_arr) ==
  LET key == keyval_arr[1]
      val == keyval_arr[2]
  IN  IF key = "readOnly" THEN Str(<<"readonly=">> \o PyStr(val))
      ELSE IF key = "source"
      THEN LET r == ResolveHostPath(a, val.v)
           IN  IF r.t = "raise" THEN r ELSE Str(<<"source=">> \o r.v)
      ELSE Str(<<key, "=">> \o PyStr(val))

\* volume_dict_pairs_to_str: keyval_arr is <<key, val>>, key a lexeme
volume_dict_pairs_to_str(a, keyval_arr) ==
  LET key == keyval_arr[1]
      val == keyval_arr[2]
  IN  IF key = "read_only" THEN Str(<<"readonly=">> \o PyStr(val))
      ELSE IF key = "source"
      THEN LET r == ResolveHostPath(a, val.v)
           IN  IF r.t = "raise" THEN r ELSE Str(<<"source=">> \o r.v)
      ELSE Str(<<key, "=">> \o PyStr(val))

\* the first raise of a sequence of results, or the str values
Collect(rs) ==
  IF \E i \in 1..Len(rs) : rs[i].t = "raise"
  THEN rs[CHOOSE i \in 1..Len(rs) :
            rs[i].t = "raise" /\ \A j \in 1..(i - 1) : rs[j].t # "raise"]
  ELSE List([i \in 1..Len(rs) |-> rs[i].v])

\* volume_to_str_lambda
volume_to_str_lambda(a, volume) ==
  IF volume.t = "str" THEN Str(<<"-v", SP>> \o volume.v)
  ELSE IF volume.t = "dict"
  THEN LET segs == Collect([i \in 1..Len(volume.v) |->
                              volume_dict_pairs_to_str(a, volume.v[i])])
       IN  IF segs.t = "raise" THEN segs
           ELSE Str(<<"--mount", SP>> \o Join(segs.v, ","))
  ELSE Raise("NameError")

\* env_file_to_str_lambda
env_file_to_str_lambda(a, env_file) ==
  LET r == ResolveHostPath(a, env_file)
  IN  IF r.t = "raise" THEN r ELSE Str(<<"--env-file", SP>> \o r.v)

-----------------------------------------------------------------------------
(* main, lines 117-216 *)

\* compose_file['services'] is an ordered mapping: a sequence of
\* <<name, service>> pairs
HasKey(services, name) == \E i \in 1..Len(services) : services[i][1] = name

Lookup(services, name) ==
  services[CHOOSE i \in 1..Len(services) : services[i][1] = name][2]

\* x or []
OrEmpty(x) == IF Truthy(x) THEN x.v ELSE <<>>

\* itertools.chain.from_iterable(zip(itertools.repeat(flag, len(xs)), xs))
RECURSIVE FlagPairs(_, _)
FlagPairs(flag, xs) ==
  IF xs = <<>> THEN <<>>
  ELSE <<Str(<<flag>>), xs[1]>> \o FlagPairs(flag, Tail(xs))

\* a sequence of str as list elements, and back
Boxed(xs) == [i \in 1..Len(xs) |-> Str(xs[i])]

Unboxed(xs) == [i \in 1..Len(xs) |-> xs[i].v]

NoLocals == [set |-> FALSE]

Abort(e, msg) ==
  /\ pc' = "aborted"
  /\ err' = [kind |-> e, msg |-> msg]

\* the message naming only the first service
NotFoundMsgFirstKey(service, services) ==
  <<"Service", SP, service, SP, "not", SP, "found", SP, "in", SP,
    "dict_keys([", "'", services[1][1], "'", "])">>

\* 'Service {} not found in {}'.format(args.service, services.keys())
NotFoundMsg(service, services) ==
  <<"Service", SP, service, SP, "not", SP, "found", SP, "in", SP,
    "dict_keys([">>
    \o Join([i \in 1..Len(services) |-> <<"'", services[i][1], "'">>], ", ")
    \o <<"])">>

\* lines 118-123: read the manifest, check the context and the service
Load ==
  /\ pc = "start"
  /\ IF args.context = <<>>
     THEN Abort("SystemExit", <<"context MUST be passed">>)
     ELSE IF ~HasKey(compose_file.services, args.service)
     THEN Abort("SystemExit", NotFoundMsg(args.service, compose_file.services))
     ELSE pc' = "loaded" /\ err' = err
  /\ UNCHANGED <<args, environ, compose_file, locals, cmd, stdout, probe>>

\* lines 125-127
EntrypointSplit(svc_entrypoint_raw) ==
  LET svc_entrypoint ==
        IF svc_entrypoint_raw.t = "list"
        THEN Str(Join(Unboxed(svc_entrypoint_raw.v), SP))
        ELSE svc_entrypoint_raw
  IN  IF Truthy(svc_entrypoint) THEN Split(svc_entrypoint.v, SP) ELSE <<>>

\* the ports under the exposure flag
PortFlagExpose == "--expose"

\* line 162: the flag of the ports group
PortFlag == "-p"

\* lines 125-166: read the fields and build the flag groups; the groups
\* made by itertools are iterators, the two made by list(map(...)) are lists
Extract ==
  /\ pc = "loaded"
  /\ LET svc == Lookup(compose_file.services, args.service)
         svc_ports_raw == OrEmpty(svc.ports)
         svc_ports == Collect([i \in 1..Len(svc_ports_raw) |->
                                 port_to_str(svc_ports_raw[i])])
         svc_env_file == OrEmpty(svc.env_file)
         svc_volumes_raw == OrEmpty(svc.volumes)
         env_file_list == Collect([i \in 1..Len(svc_env_file) |->
                            env_file_to_str_lambda(args, svc_env_file[i].v)])
         volume_list == Collect([i \in 1..Len(svc_volumes_raw) |->
                          volume_to_str_lambda(args, svc_volumes_raw[i])])
     IN  IF svc_ports.t = "raise"
         THEN Abort(svc_ports.v, <<>>) /\ locals' = locals
         ELSE IF env_file_list.t = "raise"
         THEN Abort(env_file_list.v, <<>>) /\ locals' = locals
         ELSE IF volume_list.t = "raise"
         THEN Abort(volume_list.v, <<>>) /\ locals' = locals
         ELSE /\ pc' = "extracted"
              /\ err' = err
              /\ locals' =
                   [set |-> TRUE,
                    svc_entrypoint_split |-> EntrypointSplit(svc.entrypoint),
                    svc_command |-> svc.command,
                    svc_image |-> svc.image,
                    svc_name |-> svc.container_name,
                    svc_pid |-> svc.pid,
                    svc_stop_grace_period |-> svc.stop_grace_period,
                    svc_stop_signal |-> svc.stop_signal,
                    svc_working_dir |-> svc.working_dir,
                    cap_add_list |-> FlagPairs("--cap-add", OrEmpty(svc.cap_add)),
                    cap_drop_list |-> FlagPairs("--cap-drop", OrEmpty(svc.cap_drop)),
                    devices_list |-> FlagPairs("--devices", OrEmpty(svc.devices)),
                    dns_list |-> FlagPairs("--dns", OrEmpty(svc.dns)),
                    dns_search_list |->
                      FlagPairs("--dns-search", OrEmpty(svc.dns_search)),
                    environment_list |-> FlagPairs("-e", OrEmpty(svc.environment)),
                    expose_list |-> FlagPairs("--expose", OrEmpty(svc.expose)),
                    extra_host_list |->
                      FlagPairs("--add-host", OrEmpty(svc.extra_hosts)),
                    label_list |-> FlagPairs("-l", OrEmpty(svc.labels)),
                    port_list |-> FlagPairs(PortFlag, Boxed(svc_ports.v)),
                    env_file_list |-> Boxed(env_file_list.v),
                    volume_list |-> Boxed(volume_list.v)]
  /\ UNCHANGED <<args, environ, compose_file, cmd, stdout, probe>>

\* cmd.extend(it) for an iterator it: what is left of it after the call
Drained(it) == <<>>

Words(ws) == [i \in 1..Len(ws) |-> Str(<<ws[i]>>)]

\* lines 169-183: the telepresence part of the command
AssembleProxy ==
  /\ pc = "extracted"
  /\ cmd' = Words(<<"telepresence", "--method", "container", "--context">>)
              \o <<Str(args.context)>>
              \o (IF args.swap
                  THEN <<Str(<<"--swap-deployment">>), Str(<<args.service>>)>>
                  ELSE <<Str(<<"--new-deployment">>),
                         Str(<<"tele-", args.service>>)>>)
              \o locals.expose_list
              \o Words(<<"--mount", "false", "--env-file",
                         "telepresence-env-file.env.tmp",
                         "--docker-run", "--rm", "-it">>)
  /\ locals' = [locals EXCEPT !.expose_list = Drained(@)]
  /\ pc' = "proxy"
  /\ UNCHANGED <<args, environ, compose_file, stdout, err, probe>>

\* the single-value flags with --workdir emitted first
SingleFlagsWorkdirFirst(l) ==
  (IF Truthy(l.svc_working_dir)
   THEN <<Str(<<"--workdir">>), l.svc_working_dir>> ELSE <<>>)
  \o (IF Truthy(l.svc_name)
      THEN <<Str(<<"--name">>), l.svc_name>> ELSE <<>>)
  \o (IF l.svc_entrypoint_split # <<>>
      THEN <<Str(<<"--entrypoint">>), Str(l.svc_entrypoint_split[1])>>
      ELSE <<>>)
  \o (IF Truthy(l.svc_pid) THEN <<Str(<<"--pid">>), l.svc_pid>> ELSE <<>>)
  \o (IF Truthy(l.svc_stop_grace_period)
      THEN <<Str(<<"--stop-timeout">>),
             Str(PyStr(PyInt(convert_to_seconds(l.svc_stop_grace_period.v))))>>
      ELSE <<>>)
  \o (IF Truthy(l.svc_stop_signal)
      THEN <<Str(<<"--stop-signal">>), l.svc_stop_signal>> ELSE <<>>)

\* lines 184-195: the single-value docker flags
SingleFlags(l) ==
  (IF Truthy(l.svc_name)
   THEN <<Str(<<"--name">>), l.svc_name>> ELSE <<>>)
  \o (IF l.svc_entrypoint_split # <<>>
      THEN <<Str(<<"--entrypoint">>), Str(l.svc_entrypoint_split[1])>>
      ELSE <<>>)
  \o (IF Truthy(l.svc_pid) THEN <<Str(<<"--pid">>), l.svc_pid>> ELSE <<>>)
  \o (IF Truthy(l.svc_stop_grace_period)
      THEN <<Str(<<"--stop-timeout">>),
             Str(PyStr(PyInt(convert_to_seconds(l.svc_stop_grace_period.v))))>>
      ELSE <<>>)
  \o (IF Truthy(l.svc_stop_signal)
      THEN <<Str(<<"--stop-signal">>), l.svc_stop_signal>> ELSE <<>>)
  \o (IF Truthy(l.svc_working_dir)
      THEN <<Str(<<"--workdir">>), l.svc_working_dir>> ELSE <<>>)

\* lines 197-208: the repeated-value flag groups
RepeatedFlags(l) ==
  l.cap_add_list \o l.cap_drop_list \o l.devices_list \o l.dns_list
    \o l.dns_search_list \o l.env_file_list \o l.environment_list
    \o l.expose_list \o l.extra_host_list \o l.label_list \o l.port_list
    \o l.volume_list

\* lines 209-212: the image and the rest of the entrypoint
ImageAndTail(l) ==
  <<l.svc_image>>
    \o (IF Len(l.svc_entrypoint_split) > 1
        THEN Boxed(Tail(l.svc_entrypoint_split)) ELSE <<>>)

\* lines 184-212: the docker part of the command
AssembleDocker ==
  /\ pc = "proxy"
  /\ cmd' = cmd \o SingleFlags(locals) \o RepeatedFlags(locals)
              \o ImageAndTail(locals)
  /\ locals' = [locals EXCEPT
                  !.cap_add_list = Drained(@), !.cap_drop_list = Drained(@),
                  !.devices_list = Drained(@), !.dns_list = Drained(@),
                  !.dns_search_list = Drained(@),
                  !.environment_list = Drained(@),
                  !.expose_list = Drained(@), !.extra_host_list = Drained(@),
                  !.label_list = Drained(@), !.port_list = Drained(@)]
  /\ pc' = "assembled"
  /\ UNCHANGED <<args, environ, compose_file, stdout, err, probe>>

\* lines 215-216: ' '.join(cmd) raises TypeError on an element that is no
\* str; otherwise the label and the command are printed
PrintCmd ==
  /\ pc = "assembled"
  /\ IF \E i \in 1..Len(cmd) : cmd[i].t # "str"
     THEN Abort("TypeError", <<>>) /\ stdout' = stdout
     ELSE /\ stdout' = <<"Docker command:", "\n">>
                         \o Join([i \in 1..Len(cmd) |-> cmd[i].v], SP)
          /\ pc' = "printed"
          /\ err' = err
  /\ UNCHANGED <<args, environ, compose_file, locals, cmd, probe>>

-----------------------------------------------------------------------------
(* the inputs *)

MaxSetFields == 2

ScalarFields ==
  {"entrypoint", "command", "container_name", "pid", "stop_grace_period",
   "stop_signal", "working_dir"}

ListFields ==
  {"cap_add", "cap_drop", "devices", "dns", "dns_search", "env_file",
   "environment", "expose", "extra_hosts", "labels", "ports", "volumes"}

Fields == ScalarFields \cup ListFields \cup {"image"}

StructuredPort ==
  Dict(<< <<"published", PyInt(8080)>>, <<"target", PyInt(80)>>,
          <<"protocol", Str(<<"tcp">>)>> >>)

MountObject(roKey) ==
  Dict(<< <<"type", Str(<<"bind">>)>>, <<"source", Str(<<".", "/", "x">>)>>,
          <<"target", Str(<<"/", "y">>)>>, <<roKey, PyBool(TRUE)>> >>)

\* the values a field takes when the manifest sets it
FieldValues(f) ==
  CASE f = "entrypoint" ->
         {Str(<<"sh">>), Str(<<"sh", SP, "-c", SP, "run.sh">>),
          List(<<Str(<<"sh">>), Str(<<"-c">>), Str(<<"run.sh">>)>>), List(<<>>),
          Str(<<SP, "sh">>), Str(<<"sh", TAB, "-c">>)}
    [] f = "command" -> {Str(<<"serve">>)}
    [] f = "container_name" -> {Str(<<"box">>)}
    [] f = "pid" -> {Str(<<"host">>)}
    [] f = "stop_grace_period" ->
         {Str(<<"1", "h", "3", "0", "m">>), Str(<<"1", "m", "1", "m">>)}
    [] f = "stop_signal" -> {Str(<<"SIGUSR1">>)}
    [] f = "working_dir" -> {Str(<<"/", "app">>)}
    [] f = "cap_add" -> {List(<<Str(<<"NET_ADMIN">>), Str(<<"SYS_TIME">>)>>)}
    [] f = "cap_drop" -> {List(<<Str(<<"MKNOD">>), Str(<<"CHOWN">>)>>)}
    [] f = "devices" -> {List(<<Str(<<"/dev/a">>), Str(<<"/dev/b">>)>>)}
    [] f = "dns" -> {List(<<Str(<<"8.8.8.8">>), Str(<<"9.9.9.9">>)>>)}
    [] f = "dns_search" -> {List(<<Str(<<"d1.example">>), Str(<<"d2.example">>)>>)}
    [] f = "env_file" ->
         {List(<<Str(<<".", "/", "e">>), Str(<<"/", "a", "/", "..", "/", "b">>)>>),
          List(<<Str(<<"~", "/", "z">>)>>)}
    [] f = "environment" -> {List(<<Str(<<"K1=v1">>), Str(<<"K2=v2">>)>>)}
    [] f = "expose" -> {List(<<Str(<<"3000">>), Str(<<"4000">>)>>), List(<<>>)}
    [] f = "extra_hosts" -> {List(<<Str(<<"h1:10.0.0.1">>), Str(<<"h2:10.0.0.2">>)>>)}
    [] f = "labels" -> {List(<<Str(<<"l1=a">>), Str(<<"l2=b">>)>>)}
    [] f = "ports" ->
         {List(<<Str(<<"8080:80">>), StructuredPort>>), List(<<PyInt(80)>>)}
    [] f = "volumes" ->
         {List(<<Str(<<".", "/", "x", ":", "/", "y">>)>>),
          List(<<MountObject("readOnly")>>),
          List(<<MountObject("read_only"), Str(<<"/", "d", ":", "/", "d">>)>>),
          List(<<PyInt(5)>>)}

FieldValuePairs ==
  UNION {{<<f, v>> : v \in FieldValues(f)} : f \in Fields \ {"image"}}

\* the services that set at most k fields other than image, each to one
\* of its values; a field not set is absent
RECURSIVE ServicesSetting(_)
ServicesSetting(k) ==
  IF k = 0 THEN {[f \in Fields |-> NoneV]}
  ELSE LET fewer == ServicesSetting(k - 1)
       IN  fewer \cup
             {[svc EXCEPT ![fv[1]] = fv[2]] :
                svc \in fewer, fv \in FieldValuePairs}

\* a service entry of the manifest: a mapping whose absent fields read as
\* None through dict.get; the image is given or not
ServiceSpecs ==
  LET some == ServicesSetting(MaxSetFields)
  IN  some \cup {[svc EXCEPT !["image"] = Str(<<"img">>)] : svc \in some}

OtherService == [f \in Fields |-> IF f = "image" THEN Str(<<"pg">>) ELSE NoneV]

ArgsSet ==
  [service : {"web", "Web", "ghost"},
   context : {<<>>, <<"ctx">>},
   swap : BOOLEAN,
   composefile : {<<"c.yml">>, <<"/", "proj", "/", "c.yml">>}]

Environ == [HOME |-> <<"/", "h">>, cwd |-> <<"/", "w">>]

NoProbe == [fn |-> "none"]

Init ==
  /\ args \in ArgsSet
  /\ environ = Environ
  /\ \E svc \in ServiceSpecs :
       compose_file = [services |-> << <<"web", svc>>, <<"db", OtherService>> >>]
  /\ pc = "start"
  /\ locals = NoLocals
  /\ cmd = <<>>
  /\ stdout = <<>>
  /\ err = NoneV
  /\ probe = NoProbe

Next == Load \/ Extract \/ AssembleProxy \/ AssembleDocker \/ PrintCmd

Spec == Init /\ [][Next]_vars

-----------------------------------------------------------------------------
(* Reading a printed command back.  The values the inputs give to the     *)
(* fields are no flag names, so a flag token is told by its text.         *)

\* the selected service as the manifest gives it
Service == Lookup(compose_file.services, args.service)

\* the argument tokens of the printed line, cut at single spaces
PrintedTokens == Split(SubSeq(stdout, 3, Len(stdout)), SP)

IsFlagIn(tok, flags) == Len(tok) = 1 /\ tok[1] \in flags

ProxyPrefix == << <<"telepresence">>, <<"--method">>, <<"container">>,
                  <<"--context">> >>

DeploymentFlags == {"--swap-deployment", "--new-deployment"}

ProxyFixed == << <<"--mount">>, <<"false">>, <<"--env-file">>,
                 <<"telepresence-env-file.env.tmp">>, <<"--docker-run">>,
                 <<"--rm">>, <<"-it">> >>

SingleFlagOrder == <<"--name", "--entrypoint", "--pid", "--stop-timeout",
                     "--stop-signal", "--workdir">>

\* the repeated-value fields in the order of the command, with their flags
GroupOrder == <<"cap_add", "cap_drop", "devices", "dns", "dns_search",
                "env_file", "environment", "expose", "extra_hosts", "labels",
                "ports", "volumes">>

GroupFlags(f) ==
  CASE f = "cap_add" -> {"--cap-add"} [] f = "cap_drop" -> {"--cap-drop"}
    [] f = "devices" -> {"--devices"} [] f = "dns" -> {"--dns"}
    [] f = "dns_search" -> {"--dns-search"} [] f = "env_file" -> {"--env-file"}
    [] f = "environment" -> {"-e"} [] f = "expose" -> {"--expose"}
    [] f = "extra_hosts" -> {"--add-host"} [] f = "labels" -> {"-l"}
    [] f = "ports" -> {"-p"} [] f = "volumes" -> {"-v", "--mount"}

RepeatedFlagSet == UNION {GroupFlags(GroupOrder[k]) : k \in 1..Len(GroupOrder)}

AllFlags ==
  RepeatedFlagSet \cup DeploymentFlags
    \cup {SingleFlagOrder[k] : k \in 1..Len(SingleFlagOrder)}
    \cup {"telepresence", "--method", "--context", "--docker-run", "--rm", "-it"}

\* the index after the longest run of flag/value pairs from i with flags
\* in the given set
RECURSIVE SkipPairs(_, _, _)
SkipPairs(T, i, flags) ==
  IF i + 1 <= Len(T) /\ IsFlagIn(T[i], flags)
  THEN SkipPairs(T, i + 2, flags) ELSE i

\* the index after the optional single-value flags from position k of
\* SingleFlagOrder on, each at most once and in that order
RECURSIVE SkipSingles(_, _, _)
SkipSingles(T, i, k) ==
  IF k > Len(SingleFlagOrder) THEN i
  ELSE IF i + 1 <= Len(T) /\ T[i] = <<SingleFlagOrder[k]>>
       THEN SkipSingles(T, i + 2, k + 1)
       ELSE SkipSingles(T, i, k + 1)

\* where the stages of a token sequence begin, when it has the layout
ExposeStart == Len(ProxyPrefix) + 4
FixedStart(T) == SkipPairs(T, ExposeStart, {"--expose"})
SinglesStart(T) == FixedStart(T) + Len(ProxyFixed)
RepeatedStart(T) == SkipSingles(T, SinglesStart(T), 1)
ImageIndex(T) == SkipPairs(T, RepeatedStart(T), RepeatedFlagSet)

HasLayout(T) ==
  /\ Len(T) >= ExposeStart - 1
  /\ SubSeq(T, 1, Len(ProxyPrefix)) = ProxyPrefix
  /\ T[Len(ProxyPrefix) + 1] = args.context
  /\ IsFlagIn(T[Len(ProxyPrefix) + 2], DeploymentFlags)
  /\ SubSeq(T, FixedStart(T), SinglesStart(T) - 1) = ProxyFixed
  /\ ImageIndex(T) <= Len(T)
  /\ \A i \in ImageIndex(T)..Len(T) : ~IsFlagIn(T[i], AllFlags)

\* the <<flag, value>> pairs of T[i..j-1]
Pairs(T, i, j) ==
  [k \in 1..((j - i) \div 2) |-> <<T[i + 2 * (k - 1)], T[i + 2 * (k - 1) + 1]>>]

\* the values of the pairs whose flag is in flags, in order
ValuesOf(ps, flags) ==
  LET sel == SelectSeq(ps, LAMBDA q : IsFlagIn(q[1], flags))
  IN  [k \in 1..Len(sel) |-> sel[k][2]]

SingleSource(flag) ==
  CASE flag = "--name" -> Service.container_name
    [] flag = "--entrypoint" -> Service.entrypoint
    [] flag = "--pid" -> Service.pid
    [] flag = "--stop-timeout" -> Service.stop_grace_period
    [] flag = "--stop-signal" -> Service.stop_signal
    [] flag = "--workdir" -> Service.working_dir

\* C1: every printed command has the stage layout: the telepresence
\* prefix with the context, the deployment-target pair, the --expose
\* pairs, the fixed proxy flags, the single-value flags in the order
\* --name, --entrypoint, --pid, --stop-timeout, --stop-signal, --workdir
\* (each only when the manifest gives its field), the repeated-value
\* pairs, the image, and then only entrypoint tokens.
StageOrder ==
  pc = "printed" =>
    LET T == PrintedTokens
    IN  /\ HasLayout(T)
        /\ \A k \in 1..Len(SingleFlagOrder) :
             (\E i \in SinglesStart(T)..(RepeatedStart(T) - 1) :
                T[i] = <<SingleFlagOrder[k]>>)
               => SingleSource(SingleFlagOrder[k]) # NoneV

\* a printed command with two single-value flags, a repeated group and
\* trailing entrypoint tokens
StageOrderWitness ==
  /\ pc = "printed"
  /\ Service.entrypoint = Str(<<"sh", SP, "-c", SP, "run.sh">>)
  /\ Service.working_dir # NoneV
  /\ ImageIndex(PrintedTokens) + 2 = Len(PrintedTokens)

-----------------------------------------------------------------------------
(* the repeated-value section *)

GroupIdx(flagtok) ==
  CHOOSE k \in 1..Len(GroupOrder) : flagtok[1] \in GroupFlags(GroupOrder[k])

SimpleGroups ==
  {"cap_add", "cap_drop", "devices", "dns", "dns_search", "environment",
   "expose", "extra_hosts", "labels"}

RepeatedPairs(T) == Pairs(T, RepeatedStart(T), ImageIndex(T))

\* in a printed command the groups of the given fields stand in the fixed
\* order, each with one pair per element of its list, the simple ones with
\* the elements as values in list order
GroupsAsListed(fields) ==
  pc = "printed" =>
    LET ps == RepeatedPairs(PrintedTokens)
    IN  /\ \A a, b \in 1..Len(ps) :
             a < b => GroupIdx(ps[a][1]) <= GroupIdx(ps[b][1])
        /\ \A f \in fields :
             Len(ValuesOf(ps, GroupFlags(f))) = Len(OrEmpty(Service[f]))
        /\ \A f \in fields \cap SimpleGroups :
             ValuesOf(ps, GroupFlags(f)) = Unboxed(OrEmpty(Service[f]))

\* C2: in every printed command the repeated-value section holds the
\* groups cap_add, cap_drop, devices, dns, dns_search, env_file,
\* environment, expose, extra_hosts, labels, ports, volumes in that order,
\* every one of them, expose included, with exactly one flag/value pair
\* per element of its list, in list order.
RepeatedGroupsComplete == GroupsAsListed(ListFields)

\* the same for every group but expose
RepeatedGroupsButExpose == GroupsAsListed(ListFields \ {"expose"})

-----------------------------------------------------------------------------
(* ports *)

\* PUBLISHED:TARGET/PROTOCOL of a structured port; a string port as it is
RenderedPort(port) ==
  IF port.t = "str" THEN port.v
  ELSE <<ToString(DictGet(port, "published").v), ":",
         ToString(DictGet(port, "target").v), "/">>
         \o DictGet(port, "protocol").v

RenderedPorts ==
  LET ports == OrEmpty(Service.ports)
  IN  [i \in 1..Len(ports) |-> RenderedPort(ports[i])]

ExposeStagePairs(T) == Pairs(T, ExposeStart, FixedStart(T))

\* C3 as stated: the ports are the values of the --expose flags between
\* the deployment-target pair and the fixed proxy flags, and no -p token
\* is printed.
PortsOnlyExposed ==
  pc = "printed" =>
    LET T == PrintedTokens
    IN  /\ ValuesOf(ExposeStagePairs(T), {"--expose"}) = RenderedPorts
        /\ \A i \in 1..Len(T) : T[i] # <<"-p">>

\* C3 amended: the --expose flags between the deployment-target pair and
\* the fixed proxy flags carry the elements of the expose field, and the
\* ports are printed as -p pairs of the repeated-value section, one per
\* entry, in order.
PortsPublished ==
  pc = "printed" =>
    LET T == PrintedTokens
    IN  /\ ValuesOf(ExposeStagePairs(T), {"--expose"})
             = Unboxed(OrEmpty(Service.expose))
        /\ ValuesOf(RepeatedPairs(T), {"-p"}) = RenderedPorts

\* a printed command of a service with ports and exposed ports
PortsPublishedWitness ==
  /\ pc = "printed"
  /\ Len(OrEmpty(Service.ports)) = 2
  /\ Len(OrEmpty(Service.expose)) = 2

-----------------------------------------------------------------------------
(* failures *)

ServiceKnown == HasKey(compose_file.services, args.service)

\* C4: a run for a known service without image does not abort on the
\* missing image: it ends TypeError-free, with the command printed.
MissingImageStillPrinted ==
  (ServiceKnown /\ pc = "aborted" /\ Service.image = NoneV)
    => err.kind # "TypeError"

\* the lexemes of a str
Lexemes(m) == {m[i] : i \in 1..Len(m)}

ListsEveryService ==
  /\ pc = "aborted"
  /\ err.kind = "SystemExit"
  /\ \A i \in 1..Len(compose_file.services) :
       compose_file.services[i][1] \in Lexemes(err.msg)
  /\ stdout = <<>>

\* nothing is printed, or the run is over and the line printed is the
\* label followed by all of cmd
AllOrNothing ==
  \/ stdout = <<>>
  \/ /\ pc = "printed"
     /\ stdout = <<"Docker command:", "\n">> \o Join(Unboxed(cmd), SP)
     /\ HasLayout(PrintedTokens)

\* C7 as stated: once main has run its checks for a service name that is
\* no key of the services mapping, it has aborted with a message that
\* lists every service name, and nothing is printed; and every run prints
\* all of the command or nothing.
UnknownServiceListed ==
  /\ (~ServiceKnown /\ pc # "start") => ListsEveryService
  /\ AllOrNothing

\* C7 amended: the same when a non-empty context was passed (the context
\* is checked first, and its failure message names no service).
UnknownServiceListedGivenContext ==
  /\ (args.context # <<>> /\ ~ServiceKnown /\ pc # "start")
       => ListsEveryService
  /\ AllOrNothing

\* the abort for a name that differs from a key in case only
UnknownServiceWitness ==
  /\ pc = "aborted"
  /\ args.service = "Web"
  /\ args.context # <<>>

BadShape(entries) ==
  \E i \in 1..Len(entries) : entries[i].t \notin {"str", "dict"}

\* C8: a string port is printed unchanged and a structured one as
\* PUBLISHED:TARGET/PROTOCOL, none dropped; and a run whose service has a
\* ports or volumes entry of another shape never gets past the
\* normalizers: it prints nothing and, once they have run, has aborted.
ShapeErrorsFatal ==
  /\ pc = "printed" =>
       /\ ValuesOf(RepeatedPairs(PrintedTokens), {"-p"}) = RenderedPorts
       /\ Len(ValuesOf(RepeatedPairs(PrintedTokens), {"-v", "--mount"}))
            = Len(OrEmpty(Service.volumes))
  /\ (ServiceKnown /\ (BadShape(OrEmpty(Service.ports))
                         \/ BadShape(OrEmpty(Service.volumes))))
       => /\ pc \in {"start", "loaded", "aborted"}
          /\ stdout = <<>>
          /\ pc = "aborted" => err.kind \in {"SystemExit", "NameError"}

\* the abort on a bare integer port
ShapeErrorsFatalWitness ==
  /\ pc = "aborted"
  /\ err.kind = "NameError"
  /\ Service.ports = List(<<PyInt(80)>>)

-----------------------------------------------------------------------------
(* entrypoint *)

Whitespace == {SP, TAB}

\* the tokens of a str between runs of whitespace
RECURSIVE WhitespaceTokensAcc(_, _)
WhitespaceTokensAcc(s, cur) ==
  IF s = <<>> THEN (IF cur = <<>> THEN <<>> ELSE <<cur>>)
  ELSE IF s[1] \in Whitespace
       THEN (IF cur = <<>> THEN <<>> ELSE <<cur>>)
              \o WhitespaceTokensAcc(Tail(s), <<>>)
       ELSE WhitespaceTokensAcc(Tail(s), Append(cur, s[1]))

\* the string form of an entrypoint
EntrypointString(e) ==
  CASE e.t = "none" -> <<>>
    [] e.t = "str" -> e.v
    [] e.t = "list" -> Join(Unboxed(e.v), SP)

\* C10: in a printed command the value of --entrypoint is the first
\* whitespace-separated token of the entrypoint (given as a string, or as
\* a sequence joined by single spaces) and the tokens after the image are
\* its other tokens in order; without entrypoint there is neither.
EntrypointWhitespaceTokens ==
  pc = "printed" =>
    LET T == PrintedTokens
        ws == WhitespaceTokensAcc(EntrypointString(Service.entrypoint), <<>>)
        singles == Pairs(T, SinglesStart(T), RepeatedStart(T))
        trailing == SubSeq(T, ImageIndex(T) + 1, Len(T))
    IN  IF ws = <<>>
        THEN ValuesOf(singles, {"--entrypoint"}) = <<>> /\ trailing = <<>>
        ELSE ValuesOf(singles, {"--entrypoint"}) = <<ws[1]>>
               /\ trailing = Tail(ws)

\* the same, cutting at single spaces only
EntrypointSpaceTokens ==
  pc = "printed" =>
    LET T == PrintedTokens
        e == EntrypointString(Service.entrypoint)
        ws == IF e = <<>> THEN <<>> ELSE Split(e, SP)
        singles == Pairs(T, SinglesStart(T), RepeatedStart(T))
        trailing == SubSeq(T, ImageIndex(T) + 1, Len(T))
    IN  IF ws = <<>>
        THEN ValuesOf(singles, {"--entrypoint"}) = <<>> /\ trailing = <<>>
        ELSE ValuesOf(singles, {"--entrypoint"}) = <<ws[1]>>
               /\ trailing = Tail(ws)

-----------------------------------------------------------------------------
(* The normalizers on their own: a call of one function on one input.     *)

MaxDurationLen == 5
MaxPathLen == 4
MaxMountKeys == 4

DurationAlphabet == {"0", "1", "3", "9", "h", "m", "M", "x"}

PathAlphabet == {"/", ".", "..", "~", "a"}

\* the sequences over S of length at most n
RECURSIVE SeqsUpTo(_, _)
SeqsUpTo(S, n) ==
  IF n = 0 THEN {<<>>}
  ELSE LET shorter == SeqsUpTo(S, n - 1)
       IN  shorter \cup {Append(q, x) : q \in shorter, x \in S}

\* "." , ".." , "~" and names stand for whole path segments
WellFormedPath(p) ==
  \A i \in 1..(Len(p) - 1) : p[i] = "/" \/ p[i + 1] = "/"

Paths == {p \in SeqsUpTo(PathAlphabet, MaxPathLen) : WellFormedPath(p)}

MountKeys == {"type", "source", "target", "read_only", "readOnly"}

MountValues(key) ==
  CASE key = "type" -> {Str(<<"bind">>)}
    [] key = "source" ->
         {Str(<<".", "/", "x">>), Str(<<"/", "s", "/", "..", "/", "t">>),
          Str(<<"~", "/", "x">>), Str(<<"..", "/", "x">>)}
    [] key = "target" -> {Str(<<"/", "y">>)}
    [] key = "read_only" -> {PyBool(TRUE), PyBool(FALSE)}
    [] key = "readOnly" -> {PyBool(TRUE)}

MountKeyValues == UNION {{<<k, v>> : v \in MountValues(k)} : k \in MountKeys}

\* the items of the mount objects of at most n keys, each key at most
\* once, in every order of declaration
RECURSIVE MountItems(_)
MountItems(n) ==
  IF n = 0 THEN {<<>>}
  ELSE LET fewer == MountItems(n - 1)
       IN  fewer \cup
             {Append(okv[1], okv[2]) :
                okv \in {x \in fewer \X MountKeyValues :
                           \A i \in 1..Len(x[1]) : x[1][i][1] # x[2][1]}}

ComposePaths ==
  {<<"c.yml">>, <<"/", "proj", "/", "c.yml">>, <<"sub", "/", "c.yml">>,
   <<"..", "/", "c.yml">>}

Call(fn, arg) == [fn |-> fn, arg |-> arg, out |-> NoneV]

InitNormalizers ==
  /\ \/ /\ \E n \in 0..MaxDurationLen :
             \E s \in [1..n -> DurationAlphabet] :
               probe = Call("convert_to_seconds", Str(s))
        /\ args = [service |-> "web", context |-> <<"ctx">>, swap |-> FALSE,
                   composefile |-> <<"c.yml">>]
     \/ /\ \/ \E p \in Paths : probe = Call("env_file_to_str_lambda", Str(p))
           \/ \E p \in Paths \ {<<>>} :
                probe = Call("volume_to_str_lambda", Str(p \o <<":", "/", "y">>))
           \/ \E o \in MountItems(MaxMountKeys) :
                probe = Call("volume_to_str_lambda", Dict(o))
           \/ probe = Call("volume_to_str_lambda", PyInt(5))
        /\ args \in [service : {"web"}, context : {<<"ctx">>}, swap : {FALSE},
                     composefile : ComposePaths]
  /\ environ = Environ
  /\ compose_file = [services |-> << <<"web", OtherService>> >>]
  /\ pc = "call"
  /\ locals = NoLocals
  /\ cmd = <<>>
  /\ stdout = <<>>
  /\ err = NoneV

Return(out) ==
  /\ probe' = [probe EXCEPT !.out = out]
  /\ pc' = "returned"
  /\ UNCHANGED <<args, environ, compose_file, locals, cmd, stdout, err>>

CallConvertToSeconds ==
  /\ pc = "call"
  /\ probe.fn = "convert_to_seconds"
  /\ Return(PyInt(convert_to_seconds(probe.arg.v)))

CallEnvFileToStr ==
  /\ pc = "call"
  /\ probe.fn = "env_file_to_str_lambda"
  /\ Return(env_file_to_str_lambda(args, probe.arg.v))

CallVolumeToStr ==
  /\ pc = "call"
  /\ probe.fn = "volume_to_str_lambda"
  /\ Return(volume_to_str_lambda(args, probe.arg))

NextNormalizers == CallConvertToSeconds \/ CallEnvFileToStr \/ CallVolumeToStr

SpecNormalizers == InitNormalizers /\ [][NextNormalizers]_vars

-----------------------------------------------------------------------------
(* durations *)

SecondsPer(unit) ==
  CASE unit = "seconds" -> 1 [] unit = "minutes" -> 60 [] unit = "hours" -> 3600
    [] unit = "days" -> 86400 [] unit = "weeks" -> 604800

\* the sum, over all the segments, of value times unit length
RECURSIVE SumOfSegments(_)
SumOfSegments(ms) ==
  IF ms = <<>> THEN 0
  ELSE ms[1].val * SecondsPer(UNITS(Lower(ms[1].unit)))
         + SumOfSegments(Tail(ms))

\* one or more <integer><unit> segments, the unit one of s, m, h, d, w in
\* either case, or missing
Segmented(s) ==
  /\ s # <<>>
  /\ s[1] \in Digits
  /\ \A i \in 2..Len(s) :
       s[i] \in Digits \/ (s[i - 1] \in Digits /\ IsUnitChar(s[i]))

NoDigit(s) == \A i \in 1..Len(s) : s[i] \notin Digits

Returned(fn) == pc = "returned" /\ probe.fn = fn

\* C5: convert_to_seconds gives, for an input of one or more
\* <integer><unit> segments, the sum over all the segments of value times
\* unit length, a unit occurring twice included; 5400 for 1h30m and for
\* 90m; and 0 for an input without digit.
DurationSumsAllSegments ==
  Returned("convert_to_seconds") =>
    LET s == probe.arg.v
    IN  /\ Segmented(s) => probe.out.v = SumOfSegments(finditer(s, 1))
        /\ s = <<"1", "h", "3", "0", "m">> => probe.out.v = 5400
        /\ s = <<"9", "0", "m">> => probe.out.v = 5400
        /\ NoDigit(s) => probe.out.v = 0

\* no unit (seconds, minutes, ...) is named by two segments
UnitsDistinct(ms) ==
  \A i, j \in 1..Len(ms) :
    UNITS(Lower(ms[i].unit)) = UNITS(Lower(ms[j].unit)) => i = j

\* the same sum when every segment names a unit of its own
DurationSumsDistinctUnits ==
  Returned("convert_to_seconds") =>
    LET s == probe.arg.v
    IN  /\ (Segmented(s) /\ UnitsDistinct(finditer(s, 1)))
             => probe.out.v = SumOfSegments(finditer(s, 1))
        /\ s = <<"1", "h", "3", "0", "m">> => probe.out.v = 5400
        /\ s = <<"9", "0", "m">> => probe.out.v = 5400
        /\ NoDigit(s) => probe.out.v = 0

-----------------------------------------------------------------------------
(* host paths *)

\* absolute, without empty, "." or ".." segment
AbsoluteNormalized(p) ==
  /\ startswith(p, "/")
  /\ p = <<"/">>
       \/ \A seg \in {Split(Tail(p), "/")[k] : k \in 1..Len(Split(Tail(p), "/"))} :
            seg \notin {<<>>, <<".">>, <<"..">>}

\* the lexemes of s before the first lexeme in stops
RECURSIVE Before(_, _)
Before(s, stops) ==
  IF s = <<>> \/ s[1] \in stops THEN <<>>
  ELSE <<s[1]>> \o Before(Tail(s), stops)

\* the lexemes of s after the first occurrence of lexeme x
RECURSIVE After(_, _)
After(s, x) ==
  IF s = <<>> THEN <<>> ELSE IF s[1] = x THEN Tail(s) ELSE After(Tail(s), x)

\* the host paths in the rendering of one env_file or volumes entry
HostPaths(fn, arg, out) ==
  IF fn = "env_file_to_str_lambda" THEN {After(out, SP)}
  ELSE IF arg.t = "str" THEN {Before(After(out, SP), {":"})}
  ELSE IF "source=" \in Lexemes(out) THEN {Before(After(out, "source="), {","})}
  ELSE {}

PathCall == probe.fn \in {"env_file_to_str_lambda", "volume_to_str_lambda"}

\* the same for one call of a normalizer: the host path it renders is
\* absolute and normalized
HostPathsAbsoluteNormalized ==
  (pc = "returned" /\ PathCall /\ probe.out.t = "str") =>
    \A p \in HostPaths(probe.fn, probe.arg, probe.out.v) : AbsoluteNormalized(p)

\* the raw host path of an entry
RawHostPath(arg) ==
  IF arg.t = "str" THEN Before(arg.v, {":"})
  ELSE IF \E i \in 1..Len(arg.v) : arg.v[i][1] = "source"
  THEN DictGet(arg, "source").v ELSE <<>>

\* the same for the entries the resolver rewrites: env_file entries and
\* structured sources given with ~ or relative
ResolvedPathsAbsoluteNormalized ==
  (pc = "returned" /\ PathCall /\ probe.out.t = "str"
     /\ (probe.fn = "env_file_to_str_lambda" \/ probe.arg.t = "dict")
     /\ ~startswith(RawHostPath(probe.arg), "/")) =>
    \A p \in HostPaths(probe.fn, probe.arg, probe.out.v) : AbsoluteNormalized(p)

\* the host paths of a printed command: the --env-file values of the
\* repeated-value section, the host side of the -v values and the source
\* of the --mount values
PrintedHostPaths(T) ==
  LET ps == RepeatedPairs(T)
      vals(flag) == {ValuesOf(ps, {flag})[k] : k \in 1..Len(ValuesOf(ps, {flag}))}
  IN  vals("--env-file")
        \cup {Before(v, {":"}) : v \in vals("-v")}
        \cup {Before(After(v, "source="), {","}) :
                v \in {w \in vals("--mount") : "source=" \in Lexemes(w)}}

\* C6: in every printed command every host path taken from the manifest,
\* of an env_file entry, of a structured volume and of a plain bind-mount
\* string, given with ~, relative or absolute, is absolute and normalized.
PrintedPathsAbsoluteNormalized ==
  pc = "printed" =>
    \A p \in PrintedHostPaths(PrintedTokens) : AbsoluteNormalized(p)

-----------------------------------------------------------------------------
(* volumes *)

\* the rendering of one key of a mount object, the read-only key being ro
SegmentAsSpecified(keyval, seg, ro) ==
  LET key == keyval[1]
      val == keyval[2]
  IN  IF key = ro
      THEN seg = <<"readonly=", IF val.v THEN "True" ELSE "False">>
      ELSE IF key = "source"
      THEN /\ seg[1] = "source="
           /\ IF startswith(val.v, "/") THEN Tail(seg) = val.v
              ELSE AbsoluteNormalized(Tail(seg))
      ELSE seg = <<key, "=">> \o PyStr(val)

TheMountRendered ==
  <<"--mount", SP, "type", "=", "bind", ",", "source=", "/", "proj", "/", "x",
    ",", "target", "=", "/", "y", ",", "readonly=", "True">>

InProj == args.composefile = <<"/", "proj", "/", "c.yml">>

\* a plain string is rendered -v <string>; a mount object --mount and one
\* key=value segment per key, comma-joined in the order of declaration,
\* with the key ro as readonly=<bool> and the source resolved
VolumeRendered(ro) ==
  (Returned("volume_to_str_lambda") /\ probe.arg.t \in {"str", "dict"}) =>
    LET out == probe.out.v
    IN  IF probe.arg.t = "str" THEN out = <<"-v", SP>> \o probe.arg.v
        ELSE LET segs == IF Len(out) = 2 THEN <<>> ELSE Split(After(out, SP), ",")
             IN  /\ SubSeq(out, 1, 2) = <<"--mount", SP>>
                 /\ Len(segs) = Len(probe.arg.v)
                 /\ \A i \in 1..Len(segs) :
                      SegmentAsSpecified(probe.arg.v[i], segs[i], ro)
                 /\ (probe.arg = MountObject(ro) /\ InProj)
                      => out = TheMountRendered

\* C9 as stated: the key readOnly is the one rendered readonly=<bool>.
VolumeRenderedReadOnlyCamel == VolumeRendered("readOnly")

\* C9 amended: the key read_only is the one rendered readonly=<bool>; a
\* key readOnly is rendered as any other key, readOnly=<bool>.
VolumeRenderedReadOnlySnake == VolumeRendered("read_only")

\* the mount {type: bind, source: ./x, target: /y, read_only: true} of a
\* manifest in /proj, rendered
VolumeRenderedWitness ==
  /\ Returned("volume_to_str_lambda")
  /\ probe.arg = MountObject("read_only")
  /\ InProj
  /\ probe.out.v = TheMountRendered

====
